---- MODULE Spec2Model ----
(***************************************************************************)
(* The WhatsApp Config node (credential projection) and the WhatsApp Send  *)
(* Message node (per-item provider dispatch, request building, HTTP call,  *)
(* result assembly) as state machines.                                      *)
(***************************************************************************)
EXTENDS Integers, Sequences, FiniteSets, TLC

(***************************************************************************)
(* JavaScript / JSON values.  A value is a record with one field, named    *)
(* after its JavaScript type.                                               *)
(***************************************************************************)
Str(s) == [str |-> s]

Arr(q) == [arr |-> q]

Obj(f) == [obj |-> f]

Null == [null |-> TRUE]

Undefined == [undefined |-> TRUE]

\* typeof, telling null and arrays apart: the one field a value has.
Tag(x) == CHOOSE n \in DOMAIN x : TRUE

EmptyObject == [k \in {} |-> Undefined]

\* JavaScript truthiness of a value (used by `a || b` and `if (a)`).
Truthy(x) ==
    CASE Tag(x) = "str" -> x.str # ""
      [] Tag(x) = "null" -> FALSE
      [] Tag(x) = "undefined" -> FALSE
      [] OTHER -> TRUE

\* a || b
OrElse(a, b) == IF Truthy(a) THEN a ELSE b

\* x === null or x === undefined: a property read or method call on it throws.
Nullish(x) == Tag(x) \in {"null", "undefined"}

\* x.key for a value that is not nullish: own property or undefined.
Prop(x, key) ==
    IF Tag(x) = "obj" /\ key \in DOMAIN x.obj THEN x.obj[key] ELSE Undefined

\* {...a, ...b}: keys of b win.
Spread(a, b) ==
    [k \in (DOMAIN a) \cup (DOMAIN b) |-> IF k \in DOMAIN b THEN b[k] ELSE a[k]]

(***************************************************************************)
(* JSON text is a sequence of lexical tokens: punctuation, string          *)
(* literals and the literal null.                                          *)
(***************************************************************************)
Punct(x) == [k |-> "punct", v |-> x]

StringLit(x) == [k |-> "string", v |-> x]

Literal(x) == [k |-> "literal", v |-> x]

NoParse == [ok |-> FALSE, val |-> Undefined, nxt |-> 0]

RECURSIVE ParseValue(_, _)
RECURSIVE ParseElements(_, _, _)
RECURSIVE ParseMembers(_, _, _)

\* value := string | null | '[' elements ']' | '{' members '}'
ParseValue(toks, i) ==
    IF i > Len(toks) THEN NoParse
    ELSE LET tk == toks[i] IN
         CASE tk.k = "string" -> [ok |-> TRUE, val |-> Str(tk.v), nxt |-> i + 1]
           [] tk.k = "literal" /\ tk.v = "null" ->
                [ok |-> TRUE, val |-> Null, nxt |-> i + 1]
           [] tk = Punct("[") ->
                IF i + 1 <= Len(toks) /\ toks[i + 1] = Punct("]")
                THEN [ok |-> TRUE, val |-> Arr(<<>>), nxt |-> i + 2]
                ELSE ParseElements(toks, i + 1, <<>>)
           [] tk = Punct("{") ->
                IF i + 1 <= Len(toks) /\ toks[i + 1] = Punct("}")
                THEN [ok |-> TRUE, val |-> Obj(EmptyObject), nxt |-> i + 2]
                ELSE ParseMembers(toks, i + 1, EmptyObject)
           [] OTHER -> NoParse

\* elements := value (',' value)* ']'
ParseElements(toks, i, acc) ==
    LET r == ParseValue(toks, i) IN
    IF ~r.ok \/ r.nxt > Len(toks) THEN NoParse
    ELSE IF toks[r.nxt] = Punct("]")
         THEN [ok |-> TRUE, val |-> Arr(Append(acc, r.val)), nxt |-> r.nxt + 1]
         ELSE IF toks[r.nxt] = Punct(",")
              THEN ParseElements(toks, r.nxt + 1, Append(acc, r.val))
              ELSE NoParse

\* members := string ':' value (',' string ':' value)* '}'
ParseMembers(toks, i, acc) ==
    IF i + 1 > Len(toks) \/ toks[i].k # "string" \/ toks[i + 1] # Punct(":")
    THEN NoParse
    ELSE LET r == ParseValue(toks, i + 2)
             key == toks[i].v
         IN  IF ~r.ok \/ r.nxt > Len(toks) THEN NoParse
             ELSE LET acc2 == Spread(acc, [k \in {key} |-> r.val]) IN
                  IF toks[r.nxt] = Punct("}")
                  THEN [ok |-> TRUE, val |-> Obj(acc2), nxt |-> r.nxt + 1]
                  ELSE IF toks[r.nxt] = Punct(",")
                       THEN ParseMembers(toks, r.nxt + 1, acc2)
                       ELSE NoParse

\* JSON.parse(text): the value, or a SyntaxError (ok = FALSE) when the text
\* is not exactly one JSON value.
JSONParse(toks) ==
    LET r == ParseValue(toks, 1) IN
    IF r.ok /\ r.nxt = Len(toks) + 1
    THEN [ok |-> TRUE, val |-> r.val]
    ELSE [ok |-> FALSE, val |-> Undefined]

\* Array.prototype.map over a sequence.
MapSeq(q, f(_)) == IF Len(q) = 0 THEN <<>> ELSE [j \in 1..Len(q) |-> f(q[j])]

\* `${x}` inside a template literal.
TemplateString(x) ==
    CASE Tag(x) = "str" -> x.str
      [] Tag(x) = "null" -> "null"
      [] Tag(x) = "undefined" -> "undefined"
      [] OTHER -> "[object Object]"

(***************************************************************************)
(* Credentials (WhatsAppApi) and the WhatsApp Config node.                 *)
(***************************************************************************)
\* The credential type's fields, with the provider section each belongs to.
RawFieldGroup ==
    [officialAccessToken |-> "official",
     officialPhoneNumberId |-> "official",
     officialBusinessAccountId |-> "official",
     zapiInstanceId |-> "zapi",
     zapiToken |-> "zapi",
     zapiClientToken |-> "zapi",
     zapiBaseUrl |-> "zapi",
     evolutionBaseUrl |-> "evolution",
     evolutionApiKey |-> "evolution",
     evolutionInstanceName |-> "evolution"]

RawFields == DOMAIN RawFieldGroup

\* A distinct stored secret for every field of the credential type.
SecretOf ==
    [officialAccessToken |-> "EAAG-token",
     officialPhoneNumberId |-> "1234567890",
     officialBusinessAccountId |-> "998877",
     zapiInstanceId |-> "3C0FFEE",
     zapiToken |-> "zapi-token",
     zapiClientToken |-> "zapi-client-token",
     zapiBaseUrl |-> "https://api.z-api.io",
     evolutionBaseUrl |-> "https://evo.example.com",
     evolutionApiKey |-> "evo-api-key",
     evolutionInstanceName |-> "evo-instance"]

\* Credential bags: every field is either left empty or holds its secret.
CredentialBags == [RawFields -> BOOLEAN]

BagValue(bag, f) == IF bag[f] THEN Str(SecretOf[f]) ELSE Str("")

FullBag == [f \in RawFields |-> TRUE]

\* ...(cond && {obj}): spreading false adds nothing.
SpreadIf(cond, obj) == IF cond THEN obj ELSE EmptyObject

\* lines 106-110: the official provider's block.
OfficialCredentials(credentials) ==
    [accessToken |-> BagValue(credentials, "officialAccessToken"),
     phoneNumberId |-> BagValue(credentials, "officialPhoneNumberId"),
     businessAccountId |-> BagValue(credentials, "officialBusinessAccountId")]

\* The Z-API block with its base URL read from the Evolution field.
ZApiCredentialsCrossed(credentials) ==
    [instanceId |-> BagValue(credentials, "zapiInstanceId"),
     token |-> BagValue(credentials, "zapiToken"),
     clientToken |-> BagValue(credentials, "zapiClientToken"),
     baseUrl |-> BagValue(credentials, "evolutionBaseUrl")]

\* lines 111-116: the Z-API block.
ZApiCredentials(credentials) ==
    [instanceId |-> BagValue(credentials, "zapiInstanceId"),
     token |-> BagValue(credentials, "zapiToken"),
     clientToken |-> BagValue(credentials, "zapiClientToken"),
     baseUrl |-> BagValue(credentials, "zapiBaseUrl")]

\* lines 117-121: the Evolution block.
EvolutionCredentials(credentials) ==
    [baseUrl |-> BagValue(credentials, "evolutionBaseUrl"),
     apiKey |-> BagValue(credentials, "evolutionApiKey"),
     instanceName |-> BagValue(credentials, "evolutionInstanceName")]

\* The credentials object of whatsappConfig: "Only include relevant
\* credentials based on selected provider".
ProjectCredentials(apiProvider, credentials) ==
    Spread(Spread(
        SpreadIf(apiProvider = "official", OfficialCredentials(credentials)),
        SpreadIf(apiProvider = "zapi", ZApiCredentials(credentials))),
        SpreadIf(apiProvider = "evolution", EvolutionCredentials(credentials)))

\* item.json = {...item.json, whatsappConfig: {apiProvider, credentials}}
AttachConfig(json, apiProvider, credentials) ==
    Spread(json,
           [whatsappConfig |->
               Obj([apiProvider |-> Str(apiProvider),
                    credentials |->
                        Obj(ProjectCredentials(apiProvider, credentials))])])

(***************************************************************************)
(* The WhatsApp Send Message node: errors, parameters, request builders.   *)
(***************************************************************************)
\* new NodeOperationError(node, message, { itemIndex }).  A message is the
\* sequence of the parts of its template literal.
NodeOperationError(message, itemIndex) ==
    [name |-> "NodeOperationError", message |-> message, itemIndex |-> <<itemIndex>>]

\* The TypeError the runtime raises for a property read or a method call on
\* a value that has none (undefined.map, null.rows, ...).
TypeError ==
    [name |-> "TypeError", message |-> <<"Cannot read properties of undefined">>,
     itemIndex |-> <<>>]

\* What helpers.httpRequest rejects with (non-2xx response, network failure).
TransportError ==
    [name |-> "AxiosError", message |-> <<"Request failed">>, itemIndex |-> <<>>]

NoError == [name |-> "none", message |-> <<>>, itemIndex |-> <<>>]

NoHeaders == [h \in {} |-> <<>>]

NoRequest ==
    [method |-> "NONE", url |-> <<>>, headers |-> NoHeaders, body |-> Undefined]

\* A builder's outcome: it threw before the transport was reached, or it
\* handed a request to helpers.httpRequest.  reads lists the getNodeParameter
\* calls it made, in order.
Threw(error, reads) ==
    [threw |-> TRUE, error |-> error, reads |-> reads, request |-> NoRequest]

Built(request, reads) ==
    [threw |-> FALSE, error |-> NoError, reads |-> reads, request |-> request]

\* IHttpRequestOptions {method: 'POST', url, headers, body, json: true}
PostRequest(url, headers, body) ==
    [method |-> "POST", url |-> url, headers |-> headers, body |-> Obj(body)]

\* ['image', 'video', 'document'].includes(messageType)
CaptionAllowed(messageType) == messageType \in {"image", "video", "document"}

\* listSections.map / forEach with section.rows.map / forEach and the row
\* property reads complete without a TypeError.
Iterable(listSections) ==
    /\ Tag(listSections) = "arr"
    /\ \A i \in 1..Len(listSections.arr) :
          LET section == listSections.arr[i] IN
          /\ ~Nullish(section)
          /\ Tag(Prop(section, "rows")) = "arr"
          /\ \A j \in 1..Len(Prop(section, "rows").arr) :
                ~Nullish(Prop(section, "rows").arr[j])

\* A parse that accepts every text (a failed parse yields an empty list).
ParseListSectionsLenient(listSectionsJson) ==
    LET r == JSONParse(listSectionsJson) IN
    [ok |-> TRUE, val |-> IF r.ok THEN r.val ELSE Arr(<<>>)]

\* try { listSections = JSON.parse(listSectionsJson) } catch { throw ... }
ParseListSections(listSectionsJson) == JSONParse(listSectionsJson)

InvalidListSections(itemIndex) ==
    NodeOperationError(<<"Invalid JSON format for List Sections">>, itemIndex)

---------------------------------------------------------------------------
\* sendWhatsAppOfficial
OfficialRow(row) ==
    Obj([id |-> Prop(row, "id"),
         title |-> Prop(row, "title"),
         description |-> OrElse(Prop(row, "description"), Str(""))])

OfficialSection(section) ==
    Obj([title |-> Prop(section, "title"),
         rows |-> Arr(MapSeq(Prop(section, "rows").arr, OfficialRow))])

OfficialInteractive(param, listSections) ==
    Spread(Spread(
        [type |-> Str("list"),
         body |-> Obj([text |-> OrElse(Str(param.listDescription), Str(param.listTitle))]),
         action |-> Obj([button |-> Str(param.buttonText),
                         sections |-> Arr(MapSeq(listSections.arr, OfficialSection))])],
        SpreadIf(param.listTitle # "" /\ param.listDescription # "",
                 [header |-> Obj([type |-> Str("text"), text |-> Str(param.listTitle)])])),
        SpreadIf(param.footerText # "",
                 [footer |-> Obj([text |-> Str(param.footerText)])]))

OfficialMedia(messageType, param) ==
    Spread(Spread(
        [link |-> Str(param.mediaUrl)],
        SpreadIf(param.caption # "" /\ CaptionAllowed(messageType),
                 [caption |-> Str(param.caption)])),
        SpreadIf(messageType = "document" /\ param.filename # "",
                 [filename |-> Str(param.filename)]))

OfficialOptions(credentials, messageBody) ==
    PostRequest(<<"https://graph.facebook.com/v18.0/",
                  TemplateString(Prop(credentials, "phoneNumberId")), "/messages">>,
                ("Authorization" :>
                     <<"Bearer ", TemplateString(Prop(credentials, "accessToken"))>>)
                @@ ("Content-Type" :> <<"application/json">>),
                messageBody)

sendWhatsAppOfficial(credentials, phoneNumber, messageType, param, itemIndex) ==
    LET base == [messaging_product |-> Str("whatsapp"), to |-> Str(phoneNumber)] IN
    IF Nullish(credentials) THEN Threw(TypeError, <<>>)
    ELSE IF messageType = "text"
    THEN Built(OfficialOptions(credentials,
                   Spread(base, [type |-> Str("text"),
                                 text |-> Obj([body |-> Str(param.message)])])),
               <<"message">>)
    ELSE IF messageType = "buttonList"
    THEN LET reads == <<"listTitle", "listDescription", "buttonText", "footerText",
                        "listSections">>
             parsed == ParseListSections(param.listSections)
         IN  IF ~parsed.ok THEN Threw(InvalidListSections(itemIndex), reads)
             ELSE IF ~Iterable(parsed.val) THEN Threw(TypeError, reads)
             ELSE Built(OfficialOptions(credentials,
                            Spread(base,
                                   [type |-> Str("interactive"),
                                    interactive |->
                                        Obj(OfficialInteractive(param, parsed.val))])),
                        reads)
    ELSE Built(OfficialOptions(credentials,
                   Spread(Spread(base, [type |-> Str(messageType)]),
                          [k \in {messageType} |-> Obj(OfficialMedia(messageType, param))])),
               IF messageType = "document"
               THEN <<"mediaUrl", "caption", "filename">>
               ELSE <<"mediaUrl", "caption">>)

---------------------------------------------------------------------------
\* sendZApi
ZApiButton(row) == Obj([id |-> Prop(row, "id"), label |-> Prop(row, "title")])

RECURSIVE PushRowsFront(_, _, _)
\* The inner loop with unshift in place of push.
PushRowsFront(rows, j, buttons) ==
    IF j > Len(rows) THEN buttons
    ELSE PushRowsFront(rows, j + 1, <<ZApiButton(rows[j])>> \o buttons)

RECURSIVE PushRows(_, _, _)
\* section.rows.forEach(row => buttons.push({id: row.id, label: row.title}))
PushRows(rows, j, buttons) ==
    IF j > Len(rows) THEN buttons
    ELSE PushRows(rows, j + 1, Append(buttons, ZApiButton(rows[j])))

RECURSIVE PushSections(_, _, _)
\* listSections.forEach(section => section.rows.forEach(...))
PushSections(sections, i, buttons) ==
    IF i > Len(sections) THEN buttons
    ELSE PushSections(sections, i + 1,
                      PushRows(Prop(sections[i], "rows").arr, 1, buttons))

\* `${baseUrl}/instances/${instanceId}/token/${token}/<path>`
ZApiEndpoint(credentials, path) ==
    <<TemplateString(Prop(credentials, "baseUrl")), "/instances/",
      TemplateString(Prop(credentials, "instanceId")), "/token/",
      TemplateString(Prop(credentials, "token")), path>>

\* switch (messageType) with no default: endpoint stays '' and no media key
\* is set for any other value.
ZApiMediaEndpoint(credentials, messageType) ==
    CASE messageType = "image" -> ZApiEndpoint(credentials, "/send-image")
      [] messageType = "document" -> ZApiEndpoint(credentials, "/send-document")
      [] messageType = "audio" -> ZApiEndpoint(credentials, "/send-audio")
      [] messageType = "video" -> ZApiEndpoint(credentials, "/send-video")
      [] OTHER -> <<>>

ZApiMedia(messageType, param) ==
    Spread(
        SpreadIf(messageType \in {"image", "document", "audio", "video"},
                 [k \in {messageType} |-> Str(param.mediaUrl)]),
        SpreadIf(param.caption # "" /\ CaptionAllowed(messageType),
                 [caption |-> Str(param.caption)]))

ZApiOptions(credentials, endpoint, messageBody) ==
    PostRequest(endpoint,
                ("Content-Type" :> <<"application/json">>)
                @@ ("Client-Token" :>
                        <<TemplateString(Prop(credentials, "clientToken"))>>),
                messageBody)

sendZApi(credentials, phoneNumber, messageType, param, itemIndex) ==
    LET base == [phone |-> Str(phoneNumber)] IN
    IF Nullish(credentials) THEN Threw(TypeError, <<>>)
    ELSE IF messageType = "text"
    THEN Built(ZApiOptions(credentials, ZApiEndpoint(credentials, "/send-text"),
                           Spread(base, [message |-> Str(param.message)])),
               <<"message">>)
    ELSE IF messageType = "buttonList"
    THEN LET reads == <<"listTitle", "listSections">>
             parsed == ParseListSections(param.listSections)
         IN  IF ~parsed.ok THEN Threw(InvalidListSections(itemIndex), reads)
             ELSE IF ~Iterable(parsed.val) THEN Threw(TypeError, reads)
             ELSE Built(ZApiOptions(credentials,
                            ZApiEndpoint(credentials, "/send-button-list"),
                            Spread(base,
                                   [message |-> Str(param.listTitle),
                                    buttonList |->
                                        Obj([buttons |->
                                                Arr(PushSections(parsed.val.arr, 1, <<>>))])])),
                        reads)
    ELSE Built(ZApiOptions(credentials, ZApiMediaEndpoint(credentials, messageType),
                           Spread(base, ZApiMedia(messageType, param))),
               <<"mediaUrl", "caption">>)

---------------------------------------------------------------------------
\* sendEvolutionApi
EvolutionRow(row) ==
    Obj([title |-> Prop(row, "title"),
         description |-> OrElse(Prop(row, "description"), Str("")),
         rowId |-> Prop(row, "id")])

EvolutionSection(section) ==
    Obj([title |-> Prop(section, "title"),
         rows |-> Arr(MapSeq(Prop(section, "rows").arr, EvolutionRow))])

\* `${baseUrl}/message/<path>/${instanceName}`
EvolutionEndpoint(credentials, path) ==
    <<TemplateString(Prop(credentials, "baseUrl")), "/message/", path, "/",
      TemplateString(Prop(credentials, "instanceName"))>>

\* switch (messageType) with no default: mimetype stays ''.
EvolutionMimetype(messageType) ==
    CASE messageType = "image" -> "image/png"
      [] messageType = "document" -> "application/pdf"
      [] messageType = "audio" -> "audio/mp3"
      [] messageType = "video" -> "video/mp4"
      [] OTHER -> ""

\* filename || 'document.pdf' for a document, else
\* `file.${image ? 'png' : audio ? 'mp3' : 'mp4'}`
EvolutionFileName(messageType, param) ==
    IF messageType = "document"
    THEN (IF param.filename # "" THEN param.filename ELSE "document.pdf")
    ELSE IF messageType = "image" THEN "file.png"
    ELSE IF messageType = "audio" THEN "file.mp3"
    ELSE "file.mp4"

EvolutionMedia(messageType, param) ==
    [mediatype |-> Str(messageType),
     mimetype |-> Str(EvolutionMimetype(messageType)),
     media |-> Str(param.mediaUrl),
     caption |-> OrElse(Str(param.caption), Str("")),
     fileName |-> Str(EvolutionFileName(messageType, param))]

EvolutionOptions(credentials, endpoint, messageBody) ==
    PostRequest(endpoint,
                ("Content-Type" :> <<"application/json">>)
                @@ ("apikey" :> <<TemplateString(Prop(credentials, "apiKey"))>>),
                messageBody)

sendEvolutionApi(credentials, phoneNumber, messageType, param, itemIndex) ==
    LET base == [number |-> Str(phoneNumber)] IN
    IF Nullish(credentials) THEN Threw(TypeError, <<>>)
    ELSE IF messageType = "text"
    THEN Built(EvolutionOptions(credentials,
                   EvolutionEndpoint(credentials, "sendText"),
                   Spread(base, [text |-> Str(param.message)])),
               <<"message">>)
    ELSE IF messageType = "buttonList"
    THEN LET reads == <<"listTitle", "listDescription", "buttonText", "footerText",
                        "listSections">>
             parsed == ParseListSections(param.listSections)
         IN  IF ~parsed.ok THEN Threw(InvalidListSections(itemIndex), reads)
             ELSE IF ~Iterable(parsed.val) THEN Threw(TypeError, reads)
             ELSE Built(EvolutionOptions(credentials,
                            EvolutionEndpoint(credentials, "sendList"),
                            Spread(base,
                                   [title |-> Str(param.listTitle),
                                    description |->
                                        OrElse(Str(param.listDescription),
                                               Str(param.listTitle)),
                                    buttonText |-> Str(param.buttonText),
                                    footerText |-> Str(param.footerText),
                                    values |->
                                        Arr(MapSeq(parsed.val.arr, EvolutionSection))])),
                        reads)
    ELSE Built(EvolutionOptions(credentials,
                   EvolutionEndpoint(credentials, "sendMedia"),
                   Spread(base, EvolutionMedia(messageType, param))),
               IF messageType = "document"
               THEN <<"mediaUrl", "caption", "filename">>
               ELSE <<"mediaUrl", "caption">>)

---------------------------------------------------------------------------
\* WhatsAppSendMessage.execute: the synchronous part of one loop iteration.

\* A template-literal or plain error message, as it appears in {error: ...}.
Message(parts) == [msg |-> parts]

\* The guard without the test of apiProvider.
ConfigMissingObjectOnly(whatsappConfig) == ~Truthy(whatsappConfig)

\* !whatsappConfig || !whatsappConfig.apiProvider
ConfigMissing(whatsappConfig) ==
    ~Truthy(whatsappConfig) \/ ~Truthy(Prop(whatsappConfig, "apiProvider"))

\* A switch whose default branch falls through to the Evolution builder.
ProviderCaseFallThrough(apiProvider) ==
    IF Tag(apiProvider) = "str" /\ apiProvider.str \in {"official", "zapi"}
    THEN apiProvider.str
    ELSE "evolution"

\* switch (whatsappConfig.apiProvider): the case label taken.
ProviderCase(apiProvider) ==
    IF Tag(apiProvider) = "str" /\ apiProvider.str \in {"official", "zapi", "evolution"}
    THEN apiProvider.str
    ELSE "default"

ConfigNotFound(itemIndex) ==
    NodeOperationError(
        <<"WhatsApp configuration not found. Please add a WhatsApp Config node before this node.">>,
        itemIndex)

UnknownProvider(apiProvider, itemIndex) ==
    NodeOperationError(<<"Unknown API provider: ", TemplateString(apiProvider)>>,
                       itemIndex)

\* Lines 224-276: from reading the item up to the call of helpers.httpRequest
\* (or the throw that precedes it).
ExecuteItem(item, itemIndex) ==
    LET whatsappConfig == Prop(Obj(item.json), "whatsappConfig") IN
    IF ConfigMissing(whatsappConfig) THEN Threw(ConfigNotFound(itemIndex), <<>>)
    ELSE
    LET apiProvider == Prop(whatsappConfig, "apiProvider")
        credentials == Prop(whatsappConfig, "credentials")
        phoneNumber == item.param.phoneNumber
        messageType == item.param.messageType
        which == ProviderCase(apiProvider)
        sent ==
            CASE which = "official" ->
                   sendWhatsAppOfficial(credentials, phoneNumber, messageType,
                                        item.param, itemIndex)
              [] which = "zapi" ->
                   sendZApi(credentials, phoneNumber, messageType, item.param, itemIndex)
              [] which = "evolution" ->
                   sendEvolutionApi(credentials, phoneNumber, messageType,
                                    item.param, itemIndex)
              [] OTHER -> Threw(UnknownProvider(apiProvider, itemIndex), <<>>)
    IN  [sent EXCEPT !.reads = <<"phoneNumber", "messageType">> \o @]

\* The success record with the item's fields spread after the new ones.
SuccessRecordSpreadLast(item, responseData, itemIndex) ==
    [json |-> Spread([messageResponse |-> responseData,
                      sentTo |-> Str(item.param.phoneNumber),
                      messageType |-> Str(item.param.messageType),
                      apiProvider |->
                          Prop(Prop(Obj(item.json), "whatsappConfig"), "apiProvider")],
                     item.json),
     pairedItem |-> itemIndex]

\* returnData.push({json: {...item.json, messageResponse, sentTo, messageType,
\* apiProvider}, pairedItem: itemIndex})
SuccessRecord(item, responseData, itemIndex) ==
    [json |-> Spread(item.json,
                     [messageResponse |-> responseData,
                      sentTo |-> Str(item.param.phoneNumber),
                      messageType |-> Str(item.param.messageType),
                      apiProvider |->
                          Prop(Prop(Obj(item.json), "whatsappConfig"), "apiProvider")]),
     pairedItem |-> itemIndex]

\* returnData.push({json: {error: error.message}, pairedItem: itemIndex})
ErrorRecord(error, itemIndex) ==
    [json |-> [error |-> Message(error.message)], pairedItem |-> itemIndex]

(***************************************************************************)
(* Inputs.                                                                  *)
(***************************************************************************)
\* Largest batch handed to a node.
MaxItems == 3

\* Largest number of sections in a well-formed listSections value.
MaxSections == 2

\* Largest number of rows in one section.
MaxRows == 2

RowIds ==
    << <<"a1", "a2", "a3", "a4">>, <<"b1", "b2", "b3", "b4">>,
       <<"c1", "c2", "c3", "c4">>, <<"d1", "d2", "d3", "d4">> >>

RowTitles ==
    << <<"Alpha 1", "Alpha 2", "Alpha 3", "Alpha 4">>,
       <<"Beta 1", "Beta 2", "Beta 3", "Beta 4">>,
       <<"Gamma 1", "Gamma 2", "Gamma 3", "Gamma 4">>,
       <<"Delta 1", "Delta 2", "Delta 3", "Delta 4">> >>

SectionTitles == <<"Section A", "Section B", "Section C", "Section D">>

\* Row j of section i; only the first row of a section has a description.
RowValue(i, j) ==
    Obj(Spread([id |-> Str(RowIds[i][j]), title |-> Str(RowTitles[i][j])],
               SpreadIf(j = 1, [description |-> Str("first")])))

\* The listSections value with counts[i] rows in section i.
SectionsValue(counts) ==
    Arr([i \in 1..Len(counts) |->
            Obj([title |-> Str(SectionTitles[i]),
                 rows |-> Arr([j \in 1..counts[i] |-> RowValue(i, j)])])])

RowCounts == UNION {[1..n -> 0..MaxRows] : n \in 0..MaxSections}

\* The order in which an object's keys are written.
KeyOrder == <<"title", "rows", "id", "description">>

RECURSIVE JSONText(_)
RECURSIVE ElementsText(_, _)
RECURSIVE MembersText(_, _, _)

\* The JSON text of a value, as the user types it into the listSections field.
JSONText(x) ==
    CASE Tag(x) = "str" -> <<StringLit(x.str)>>
      [] Tag(x) = "arr" -> <<Punct("[")>> \o ElementsText(x.arr, 1) \o <<Punct("]")>>
      [] Tag(x) = "obj" -> <<Punct("{")>> \o MembersText(x.obj, 1, TRUE) \o <<Punct("}")>>
      [] OTHER -> <<Literal("null")>>

ElementsText(q, i) ==
    IF i > Len(q) THEN <<>>
    ELSE (IF i > 1 THEN <<Punct(",")>> ELSE <<>>) \o JSONText(q[i]) \o ElementsText(q, i + 1)

MembersText(f, n, first) ==
    IF n > Len(KeyOrder) THEN <<>>
    ELSE IF KeyOrder[n] \in DOMAIN f
         THEN (IF first THEN <<>> ELSE <<Punct(",")>>)
              \o <<StringLit(KeyOrder[n]), Punct(":")>> \o JSONText(f[KeyOrder[n]])
              \o MembersText(f, n + 1, FALSE)
         ELSE MembersText(f, n + 1, first)

WellFormedListSections == {JSONText(SectionsValue(c)) : c \in RowCounts}

\* Texts JSON.parse rejects: every well-formed text cut short by one token,
\* the empty text, a bare word, a trailing comma.
UnparsableListSections ==
    {SubSeq(txt, 1, Len(txt) - 1) : txt \in WellFormedListSections}
    \cup {<<>>, <<Literal("oops")>>, <<Punct("["), StringLit("x"), Punct(","), Punct("]")>>}

\* Texts JSON.parse accepts that are not a list of sections with rows.
OddListSections ==
    {<<Literal("null")>>, <<StringLit("abc")>>, <<Punct("{"), Punct("}")>>,
     <<Punct("["), Literal("null"), Punct("]")>>,
     <<Punct("["), Punct("{"), Punct("}"), Punct("]")>>,
     <<Punct("["), Punct("{"), StringLit("rows"), Punct(":"), Punct("["), Literal("null"), Punct("]"), Punct("}"), Punct("]")>>}

ListSectionsTexts ==
    WellFormedListSections \cup UnparsableListSections \cup OddListSections

\* The parameter's default: one section with one row.
DefaultListSections == JSONText(SectionsValue(<<1>>))

DefaultParam ==
    [phoneNumber |-> "5511999999999", messageType |-> "text", message |-> "hi",
     mediaUrl |-> "https://cdn.example.com/m", caption |-> "", filename |-> "",
     listTitle |-> "Menu", listDescription |-> "", buttonText |-> "Select an option",
     footerText |-> "", listSections |-> DefaultListSections]

Captions == {"", "Look"}

TextParams == {DefaultParam}

\* The media intents, and "sticker": a messageType only an expression can give.
MediaParams ==
    {[DefaultParam EXCEPT !.messageType = m, !.caption = c, !.filename = f] :
        m \in {"image", "audio", "video", "sticker"}, c \in Captions, f \in {""}}
    \cup
    {[DefaultParam EXCEPT !.messageType = "document", !.caption = c, !.filename = f] :
        c \in Captions, f \in {"", "a.pdf"}}

ListParams ==
    {[DefaultParam EXCEPT !.messageType = "buttonList", !.listSections = ls,
                          !.listDescription = d, !.footerText = ft] :
        ls \in ListSectionsTexts, d \in {"", "Pick one"}, ft \in {"", "bye"}}

Params == TextParams \cup MediaParams \cup ListParams

\* item.json as it arrives at the config node.
BaseJsons ==
    {[name |-> Str("Ana")], [name |-> Str("Bob"), sentTo |-> Str("nobody")]}

\* apiProvider values of the config node: the three options, and two values
\* only an expression can give.
ProviderParams == {"official", "zapi", "evolution", "foo", ""}

\* item.json as it arrives at the send node: from the config node, from
\* no config node at all, or with whatsappConfig nulled on the way.
SendJsons ==
    {AttachConfig(b, p, FullBag) : b \in BaseJsons, p \in ProviderParams}
    \cup BaseJsons
    \cup {Spread(b, [whatsappConfig |-> Null]) : b \in BaseJsons}

AllItems == {[json |-> j, param |-> q] : j \in SendJsons, q \in Params}

\* Batches exercise the loop, the catch block and the order of requests; the
\* items of a batch are drawn from this smaller set (AllItems is explored one
\* item at a time under SpecOne).  Bob's json already has a sentTo field, as
\* an item has that went through an earlier send node.
BatchParams ==
    {DefaultParam,
     [DefaultParam EXCEPT !.messageType = "buttonList", !.listSections = <<>>]}

BatchItems ==
    {[json |-> AttachConfig([name |-> Str("Ana")], p, FullBag), param |-> q] :
        p \in {"official", "zapi", "evolution"}, q \in BatchParams}
    \cup {[json |-> AttachConfig([name |-> Str("Ana")], p, FullBag),
           param |-> DefaultParam] : p \in {"foo", ""}}
    \cup {[json |-> [name |-> Str("Bob"), sentTo |-> Str("nobody")],
           param |-> DefaultParam]}
    \cup {[json |-> AttachConfig([name |-> Str("Bob"), sentTo |-> Str("nobody")],
                                 "zapi", FullBag),
           param |-> DefaultParam]}

\* What helpers.httpRequest resolves to: the remote API's JSON answer.
Responses == {Obj([messages |-> Str("wamid.1")]), Str("")}

\* Credential bags the config node is run with: all fields filled, one field
\* left empty, or only one provider's section filled.
ConfigBags ==
    {FullBag}
    \cup {[f \in RawFields |-> f # g] : g \in RawFields}
    \cup {[f \in RawFields |-> RawFieldGroup[f] = p] : p \in {"official", "zapi", "evolution"}}

ConfigInputs == {[json |-> b, apiProvider |-> p] : b \in BaseJsons, p \in ProviderParams}

SeqsUpTo(set, n) == UNION {[1..m -> set] : m \in 0..n}

(***************************************************************************)
(* State.                                                                   *)
(***************************************************************************)
VARIABLES
    items,          \* send node: this.getInputData()
    continueOnFail, \* send node: this.continueOnFail()
    itemIndex,      \* send node: the loop variable (0-based)
    pc,             \* send node: "loop", "await", "returned", "thrown"; "idle" when not run
    returnData,     \* send node: the records pushed so far
    output,         \* send node: what execute returned ([returnData])
    thrown,         \* send node: the error execute rejected with
    httpLog,        \* requests handed to helpers.httpRequest, in order
    httpDone,       \* how each request settled, in order
    inFlight,       \* item indices whose request has not settled
    paramReads,     \* getNodeParameter calls <<itemIndex, name>>, in order
    cItems,         \* config node: input items with the apiProvider resolved for each
    credentials,    \* config node: what getCredentials('whatsAppApi') returns
    cIndex,         \* config node: the loop variable (0-based)
    cPc,            \* config node: "loop", "returned"; "idle" when not run
    cReturn         \* config node: returnData

sendVars ==
    <<items, continueOnFail, itemIndex, pc, returnData, output, thrown, httpLog,
      httpDone, inFlight, paramReads>>

configVars == <<cItems, credentials, cIndex, cPc, cReturn>>

vars == <<sendVars, configVars>>

SendStart(batch, cof) ==
    /\ items = batch
    /\ continueOnFail = cof
    /\ itemIndex = 0
    /\ pc = "loop"
    /\ returnData = <<>>
    /\ output = <<>>
    /\ thrown = NoError
    /\ httpLog = <<>>
    /\ httpDone = <<>>
    /\ inFlight = {}
    /\ paramReads = <<>>

SendIdle ==
    /\ items = <<>>
    /\ continueOnFail = FALSE
    /\ itemIndex = 0
    /\ pc = "idle"
    /\ returnData = <<>>
    /\ output = <<>>
    /\ thrown = NoError
    /\ httpLog = <<>>
    /\ httpDone = <<>>
    /\ inFlight = {}
    /\ paramReads = <<>>

ConfigIdle ==
    /\ cItems = <<>>
    /\ credentials = FullBag
    /\ cIndex = 0
    /\ cPc = "idle"
    /\ cReturn = <<>>

\* The send node run on a batch.
Init ==
    /\ \E batch \in SeqsUpTo(BatchItems, MaxItems), cof \in BOOLEAN : SendStart(batch, cof)
    /\ ConfigIdle

\* The send node run on one item, any item.
InitOne ==
    /\ \E it \in AllItems, cof \in BOOLEAN : SendStart(<<it>>, cof)
    /\ ConfigIdle

\* The config node run on a batch.
InitConfig ==
    /\ cItems \in SeqsUpTo(ConfigInputs, MaxItems)
    /\ credentials \in ConfigBags
    /\ cIndex = 0
    /\ cPc = "loop"
    /\ cReturn = <<>>
    /\ SendIdle

(***************************************************************************)
(* WhatsAppSendMessage.execute                                              *)
(***************************************************************************)
\* A catch block that swallows every error.
CatchContinuesAlways(cof) == TRUE

\* if (this.continueOnFail()) { ...; continue; } throw error;
CatchContinues(cof) == cof

\* A catch block that continues without recording the failure.
CatchPushDropped(data, error, index) == data

\* returnData.push({json: {error: error.message}, pairedItem: itemIndex})
CatchPush(data, error, index) == Append(data, ErrorRecord(error, index))

\* catch (error) { ... } of the loop body.
Catch(error) ==
    IF CatchContinues(continueOnFail)
    THEN /\ returnData' = CatchPush(returnData, error, itemIndex)
         /\ itemIndex' = itemIndex + 1
         /\ pc' = "loop"
         /\ UNCHANGED thrown
    ELSE /\ thrown' = error
         /\ pc' = "thrown"
         /\ UNCHANGED <<returnData, itemIndex>>

\* The request is handed to the transport twice.
IssueRequestTwice(log, index, request) ==
    Append(Append(log, [itemIndex |-> index, request |-> request]),
           [itemIndex |-> index, request |-> request])

\* return await this.helpers.httpRequest(options)
IssueRequest(log, index, request) ==
    Append(log, [itemIndex |-> index, request |-> request])

\* One loop iteration up to its first suspension point: the item is validated,
\* its parameters are read and the request is built and handed to the
\* transport, or an error is thrown and caught.
ProcessItem ==
    /\ pc = "loop"
    /\ itemIndex < Len(items)
    /\ LET step == ExecuteItem(items[itemIndex + 1], itemIndex) IN
       /\ paramReads' =
              paramReads \o [k \in 1..Len(step.reads) |-> <<itemIndex, step.reads[k]>>]
       /\ IF step.threw
          THEN /\ Catch(step.error)
               /\ UNCHANGED <<httpLog, inFlight>>
          ELSE /\ httpLog' = IssueRequest(httpLog, itemIndex, step.request)
               /\ inFlight' = inFlight \cup {itemIndex}
               /\ pc' = "await"
               /\ UNCHANGED <<returnData, itemIndex, thrown>>
    /\ UNCHANGED <<items, continueOnFail, output, httpDone, configVars>>

\* helpers.httpRequest resolves: the success record is pushed.
HttpResponse ==
    /\ pc = "await"
    /\ \E responseData \in Responses :
         /\ returnData' = Append(returnData,
                                 SuccessRecord(items[itemIndex + 1], responseData,
                                               itemIndex))
         /\ httpDone' = Append(httpDone, [itemIndex |-> itemIndex, ok |-> TRUE,
                                          response |-> responseData])
    /\ inFlight' = inFlight \ {itemIndex}
    /\ itemIndex' = itemIndex + 1
    /\ pc' = "loop"
    /\ UNCHANGED <<items, continueOnFail, output, thrown, httpLog, paramReads, configVars>>

\* helpers.httpRequest rejects: the error reaches the catch block.
HttpError ==
    /\ pc = "await"
    /\ httpDone' = Append(httpDone, [itemIndex |-> itemIndex, ok |-> FALSE,
                                     response |-> Undefined])
    /\ inFlight' = inFlight \ {itemIndex}
    /\ Catch(TransportError)
    /\ UNCHANGED <<items, continueOnFail, output, httpLog, paramReads, configVars>>

\* return [returnData]
Return ==
    /\ pc = "loop"
    /\ itemIndex = Len(items)
    /\ output' = <<returnData>>
    /\ pc' = "returned"
    /\ UNCHANGED <<items, continueOnFail, itemIndex, returnData, thrown, httpLog,
                   httpDone, inFlight, paramReads, configVars>>

Next == ProcessItem \/ HttpResponse \/ HttpError \/ Return

Spec == Init /\ [][Next]_vars

SpecOne == InitOne /\ [][Next]_vars

(***************************************************************************)
(* WhatsAppConfig.execute                                                   *)
(***************************************************************************)
\* One loop iteration: the item's json is replaced in place and the item pushed.
ConfigItem ==
    /\ cPc = "loop"
    /\ cIndex < Len(cItems)
    /\ LET item == cItems[cIndex + 1]
           json == AttachConfig(item.json, item.apiProvider, credentials)
       IN  /\ cItems' = [cItems EXCEPT ![cIndex + 1].json = json]
           /\ cReturn' = Append(cReturn, [json |-> json])
    /\ cIndex' = cIndex + 1
    /\ UNCHANGED <<credentials, cPc, sendVars>>

\* return [returnData]
ConfigReturn ==
    /\ cPc = "loop"
    /\ cIndex = Len(cItems)
    /\ cPc' = "returned"
    /\ UNCHANGED <<cItems, credentials, cIndex, cReturn, sendVars>>

NextConfig == ConfigItem \/ ConfigReturn

SpecConfig == InitConfig /\ [][NextConfig]_vars

(***************************************************************************)
(* Properties.                                                              *)
(***************************************************************************)
\* The transport was reached for item i (0-based).
Requested(i) == \E k \in 1..Len(httpLog) : httpLog[k].itemIndex = i

RequestsFor(i) == {k \in 1..Len(httpLog) : httpLog[k].itemIndex = i}

\* Item i's request settled with a response / with an error.
Answered(i) == \E k \in 1..Len(httpDone) : httpDone[k].itemIndex = i /\ httpDone[k].ok

Rejected(i) == \E k \in 1..Len(httpDone) : httpDone[k].itemIndex = i /\ ~httpDone[k].ok

\* Item i failed: validation or building threw, or the transport rejected.
Failed(i) == ExecuteItem(items[i + 1], i).threw \/ Rejected(i)

\* The error item i failed with.
FailureOf(i) ==
    IF ExecuteItem(items[i + 1], i).threw
    THEN ExecuteItem(items[i + 1], i).error
    ELSE TransportError

\* A record of the shape {error: message} and nothing else.
IsErrorRecord(r) == DOMAIN r.json = {"error"}

\* Items whose processing has ended (with a record, or with the throw that
\* ended the execution).
Ended == {i \in 0..(Len(items) - 1) : i < itemIndex \/ (pc = "thrown" /\ i = itemIndex)}

\* C1: with continue-on-fail enabled the execution never aborts; every item
\* whose processing has ended has exactly one record, the k-th record is
\* paired with input item k and is {error: message} with the item's error
\* message exactly when the item failed and a success record otherwise; a
\* failed item leaves the loop able to go on, and the execution returns one
\* record per input item.
C1_OneRecordPerItem ==
    continueOnFail =>
        /\ pc # "thrown"
        /\ thrown = NoError
        /\ Len(returnData) = itemIndex
        /\ \A k \in 1..Len(returnData) :
              /\ returnData[k].pairedItem = k - 1
              /\ IF Failed(k - 1)
                 THEN returnData[k].json = [error |-> Message(FailureOf(k - 1).message)]
                 ELSE /\ ~IsErrorRecord(returnData[k])
                      /\ Answered(k - 1)
        /\ (pc \in {"loop", "await"} => ENABLED Next)
        /\ (pc = "returned" =>
               /\ output = <<returnData>>
               /\ Len(returnData) = Len(items))

\* C1 witness: a returned batch of three, continue-on-fail enabled: the
\* first item failed on its listSections text, the second on the transport,
\* and the third was still sent and answered; three records were returned.
C1_Witness ==
    /\ continueOnFail
    /\ pc = "returned"
    /\ Len(items) = 3
    /\ Failed(0) /\ FailureOf(0).message = <<"Invalid JSON format for List Sections">>
    /\ Rejected(1)
    /\ ~Failed(2) /\ Answered(2)
    /\ Len(output[1]) = 3

\* C2: with continue-on-fail disabled no error record is ever produced and
\* no item after a failed one is touched: the loop never gets past an item
\* that failed, and once an item has failed the execution has thrown that
\* item's error, nothing was returned, nothing further can happen, every
\* request and every parameter read belongs to
\* the failing item or an earlier one, and the requests issued are exactly
\* the sends of the items up to the failing one, one each (earlier sends stay
\* as they were, nothing compensates them).
C2_FirstFailureAborts ==
    ~continueOnFail /\ pc # "idle" =>
        /\ \A k \in 1..Len(returnData) : ~IsErrorRecord(returnData[k])
        /\ \A i \in 0..(itemIndex - 1) : ~Failed(i)
        /\ (pc = "returned" => \A i \in 0..(Len(items) - 1) : ~Failed(i))
        /\ (pc = "await" => ~ExecuteItem(items[itemIndex + 1], itemIndex).threw)
        /\ \A i \in 0..(Len(items) - 1) : Rejected(i) => pc = "thrown" /\ i = itemIndex
        /\ (pc = "thrown" =>
               /\ Failed(itemIndex)
               /\ thrown = FailureOf(itemIndex)
               /\ output = <<>>
               /\ ~ENABLED Next
               /\ \A k \in 1..Len(httpLog) : httpLog[k].itemIndex <= itemIndex
               /\ \A k \in 1..Len(paramReads) : paramReads[k][1] <= itemIndex
               /\ \A k \in 1..Len(httpLog) :
                     /\ httpLog[k].itemIndex = k - 1
                     /\ httpLog[k].request =
                            ExecuteItem(items[k], k - 1).request
                     /\ httpLog[k].request.method = "POST"
               /\ \A i \in 0..(itemIndex - 1) : Answered(i))

\* C2 witness: continue-on-fail disabled, the first item was sent and
\* answered, the second failed and the execution threw, a third item exists
\* and was never touched.
C2_Witness ==
    /\ ~continueOnFail
    /\ pc = "thrown"
    /\ Len(items) = 3
    /\ itemIndex = 1
    /\ Answered(0)
    /\ Len(httpLog) = 1
    /\ \A k \in 1..Len(paramReads) : paramReads[k][1] # 2

\* C3: requests are issued in input item order, at most one per item, never
\* two in flight; a request in flight belongs to the item being processed
\* and the loop does not go on before it settles; every success record's
\* item caused exactly one request.
C3_SequentialRequests ==
    /\ \A k \in 1..Len(httpLog) : \A m \in 1..Len(httpLog) :
          k < m => httpLog[k].itemIndex < httpLog[m].itemIndex
    /\ Cardinality(inFlight) <= 1
    /\ (inFlight # {} => pc = "await" /\ inFlight = {itemIndex})
    /\ (pc = "await" => inFlight = {itemIndex})
    /\ \A k \in 1..Len(httpLog) :
          httpLog[k].itemIndex < itemIndex =>
              Answered(httpLog[k].itemIndex) \/ Rejected(httpLog[k].itemIndex)
    /\ Len(httpDone) + Cardinality(inFlight) = Len(httpLog)
    /\ \A k \in 1..Len(returnData) :
          ~IsErrorRecord(returnData[k]) =>
              Cardinality(RequestsFor(returnData[k].pairedItem)) = 1

\* C3 witness: three items were sent one after the other and the third
\* request is in flight while the first two have settled.
C3_Witness ==
    /\ Len(httpLog) = 3
    /\ inFlight = {2}
    /\ Len(httpDone) = 2
    /\ Len(returnData) = 2
    /\ ~IsErrorRecord(returnData[1])

---------------------------------------------------------------------------
\* item.json.whatsappConfig and its apiProvider, as values.
ConfigOf(item) == Prop(Obj(item.json), "whatsappConfig")

ProviderOf(item) == Prop(ConfigOf(item), "apiProvider")

KnownProviders == {"official", "zapi", "evolution"}

Intents == {"text", "image", "document", "audio", "video", "buttonList"}

\* The item's configuration names one of the three providers.
HasProvider(item, p) == ProviderOf(item) = Str(p)

HasKnownProvider(item) == \E p \in KnownProviders : HasProvider(item, p)

\* The item's configuration carries a provider identifier outside the three.
HasUnknownProvider(item) ==
    /\ Tag(ProviderOf(item)) = "str"
    /\ ProviderOf(item).str \notin KnownProviders \cup {""}

\* The whatsappConfig object is absent (no key, or null) or its apiProvider
\* is absent or empty.
HasNoConfig(item) ==
    \/ "whatsappConfig" \notin DOMAIN item.json
    \/ item.json.whatsappConfig = Null
    \/ ProviderOf(item) \in {Undefined, Str("")}

\* Item i ended in a failure with this error: its {error: message} record
\* under continue-on-fail, the error thrown by execute otherwise.
EndedWith(i, error) ==
    /\ i \in Ended
    /\ IF continueOnFail
       THEN returnData[i + 1] =
                [json |-> [error |-> Message(error.message)], pairedItem |-> i]
       ELSE pc = "thrown" /\ thrown = error

\* Item i is being processed or has ended.
Begun(i) == i \in Ended \/ (i = itemIndex /\ pc = "await")

\* C4: an item whose configuration carries a provider identifier outside
\* {official, zapi, evolution} never reaches the transport, whatever its
\* intent and parameters, and once processed it has failed with the
\* unknown-provider error naming that identifier.
C4_UnknownProviderNoRequest ==
    \A i \in 0..(Len(items) - 1) :
        HasUnknownProvider(items[i + 1]) =>
            /\ ~Requested(i)
            /\ ~(i = itemIndex /\ pc = "await")
            /\ (i \in Ended =>
                   EndedWith(i, NodeOperationError(
                                    <<"Unknown API provider: ", ProviderOf(items[i + 1]).str>>,
                                    i)))

\* C4 witness: an item configured with provider "foo" and a well-formed
\* buttonList has ended with the unknown-provider error and no request.
C4_Witness ==
    /\ Len(items) = 1
    /\ HasProvider(items[1], "foo")
    /\ items[1].param.messageType = "buttonList"
    /\ items[1].param.listSections \in WellFormedListSections
    /\ continueOnFail
    /\ pc = "returned"
    /\ returnData[1].json = [error |-> Message(<<"Unknown API provider: ", "foo">>)]
    /\ httpLog = <<>>

\* C5: a buttonList item under official, zapi or evolution whose
\* listSections text is not parsable JSON never reaches the transport, and
\* once processed it has failed with the invalid-JSON error for that item.
C5_MalformedListNoRequest ==
    \A i \in 0..(Len(items) - 1) :
        (/\ HasKnownProvider(items[i + 1])
         /\ items[i + 1].param.messageType = "buttonList"
         /\ items[i + 1].param.listSections \in UnparsableListSections) =>
            /\ ~Requested(i)
            /\ ~(i = itemIndex /\ pc = "await")
            /\ (i \in Ended =>
                   EndedWith(i, NodeOperationError(
                                    <<"Invalid JSON format for List Sections">>, i)))

\* C5 witness: an official buttonList item whose listSections lacks its
\* closing bracket has ended with the invalid-JSON error and no request.
C5_Witness ==
    /\ Len(items) = 1
    /\ HasProvider(items[1], "official")
    /\ items[1].param.messageType = "buttonList"
    /\ items[1].param.listSections =
           SubSeq(JSONText(SectionsValue(<<2, 1>>)), 1,
                  Len(JSONText(SectionsValue(<<2, 1>>))) - 1)
    /\ ~continueOnFail
    /\ pc = "thrown"
    /\ thrown.message = <<"Invalid JSON format for List Sections">>
    /\ httpLog = <<>>

\* C6: an item without a whatsappConfig object, or with an empty
\* apiProvider, never has a parameter read for it, never reaches the
\* transport, and once processed it has failed with the
\* configuration-not-found error.
C6_MissingConfigNoReads ==
    \A i \in 0..(Len(items) - 1) :
        HasNoConfig(items[i + 1]) =>
            /\ ~Requested(i)
            /\ ~(i = itemIndex /\ pc = "await")
            /\ \A k \in 1..Len(paramReads) : paramReads[k][1] # i
            /\ (i \in Ended =>
                   EndedWith(i, NodeOperationError(
                                    <<"WhatsApp configuration not found. Please add a WhatsApp Config node before this node.">>,
                                    i)))

\* C6 witness: an item whose apiProvider is empty has ended with the
\* configuration-not-found error, with no parameter read and no request.
C6_Witness ==
    /\ Len(items) = 1
    /\ "whatsappConfig" \in DOMAIN items[1].json
    /\ ProviderOf(items[1]) = Str("")
    /\ ~continueOnFail
    /\ pc = "thrown"
    /\ thrown.name = "NodeOperationError"
    /\ paramReads = <<>>
    /\ httpLog = <<>>

---------------------------------------------------------------------------
\* The field set each provider declares for its credentials object.
DeclaredFields(p) ==
    CASE p = "official" -> {"accessToken", "phoneNumberId", "businessAccountId"}
      [] p = "zapi" -> {"instanceId", "token", "clientToken", "baseUrl"}
      [] p = "evolution" -> {"baseUrl", "apiKey", "instanceName"}
      [] OTHER -> {}

\* The stored values of provider p's own section of the credential type.
OwnValues(p) == {BagValue(credentials, f) : f \in {g \in RawFields : RawFieldGroup[g] = p}}

\* The secrets stored in the other providers' sections.
ForeignSecrets(p) ==
    {Str(SecretOf[f]) : f \in {g \in RawFields : RawFieldGroup[g] # p /\ credentials[g]}}

\* C7: the credentials object the config node attaches to an item has
\* exactly the keys of the selected provider's declared field set (none for
\* a value that is no provider), every value in it is a stored value of that
\* provider's own section of the credential type, and none is a secret of
\* another provider's section.
C7_ProviderExclusive ==
    \A k \in 1..Len(cReturn) :
        LET p == cItems[k].apiProvider
            attached == cReturn[k].json.whatsappConfig.obj.credentials.obj
        IN  /\ cReturn[k].json.whatsappConfig.obj.apiProvider = Str(p)
            /\ DOMAIN attached = DeclaredFields(p)
            /\ \A key \in DOMAIN attached :
                  /\ attached[key] \in OwnValues(p)
                  /\ attached[key] \notin ForeignSecrets(p)

\* C7 witness: with every field of the credential type filled, a batch with
\* a zapi item and an evolution item has been configured; both carry a
\* baseUrl and the two differ.
C7_Witness ==
    /\ cPc = "returned"
    /\ credentials = FullBag
    /\ Len(cReturn) >= 2
    /\ cItems[1].apiProvider = "zapi"
    /\ cItems[2].apiProvider = "evolution"
    /\ cReturn[1].json.whatsappConfig.obj.credentials.obj.baseUrl
           # cReturn[2].json.whatsappConfig.obj.credentials.obj.baseUrl

\* C8 (as claimed): under each of the three providers an item whose
\* messageType is none of the six intents never reaches the transport and,
\* once processed, has failed.
C8_UnknownIntentNoRequest ==
    \A i \in 0..(Len(items) - 1) :
        (HasKnownProvider(items[i + 1]) /\ items[i + 1].param.messageType \notin Intents) =>
            /\ ~Requested(i)
            /\ (i \in Ended => ExecuteItem(items[i + 1], i).threw)

\* The same item with another caption.
WithCaption(item, c) == [item EXCEPT !.param.caption = c]

\* C9 (as claimed): under each of the three providers the body of a
\* request for an audio item is the body the builder produces for the same
\* item with any other caption.
C9_AudioCaptionIgnored ==
    \A k \in 1..Len(httpLog) :
        LET i == httpLog[k].itemIndex IN
        (HasKnownProvider(items[i + 1]) /\ items[i + 1].param.messageType = "audio") =>
            \A c \in Captions :
                ExecuteItem(WithCaption(items[i + 1], c), i).request.body
                    = httpLog[k].request.body

RECURSIVE TotalRows(_, _)
\* The number of rows in sections i.. of a list with counts[i] rows in section i.
TotalRows(counts, i) ==
    IF i > Len(counts) THEN 0 ELSE counts[i] + TotalRows(counts, i + 1)

RECURSIVE Locate(_, _, _)
\* <<section, row>> of the n-th row counted from section i on.
Locate(counts, n, i) ==
    IF n <= counts[i] THEN <<i, n>> ELSE Locate(counts, n - counts[i], i + 1)

\* C10: a Z-API buttonList item whose listSections is a list of sections
\* with rows (any number of sections, any number of rows in each, none
\* included) is sent, and the body's buttonList.buttons has one entry per
\* row: the n-th entry is {id, label} of the n-th row in section order, then
\* row order within the section, label being the row's title.
C10_ZApiFlatten ==
    \A i \in 0..(Len(items) - 1) :
        (/\ HasProvider(items[i + 1], "zapi")
         /\ items[i + 1].param.messageType = "buttonList"
         /\ Begun(i)) =>
            \A counts \in RowCounts :
                items[i + 1].param.listSections = JSONText(SectionsValue(counts)) =>
                    /\ Cardinality(RequestsFor(i)) = 1
                    /\ \A k \in RequestsFor(i) :
                          LET buttons == httpLog[k].request.body.obj.buttonList.obj.buttons.arr IN
                          /\ Len(buttons) = TotalRows(counts, 1)
                          /\ \A n \in 1..TotalRows(counts, 1) :
                                LET at == Locate(counts, n, 1) IN
                                buttons[n] =
                                    Obj([id |-> Str(RowIds[at[1]][at[2]]),
                                         label |-> Str(RowTitles[at[1]][at[2]])])

\* C10 witness: a Z-API buttonList item with sections of 2 and 1 rows was
\* sent with exactly 3 buttons, the third being the second section's row.
C10_Witness ==
    /\ Len(items) = 1
    /\ HasProvider(items[1], "zapi")
    /\ items[1].param.messageType = "buttonList"
    /\ items[1].param.listSections = JSONText(SectionsValue(<<2, 1>>))
    /\ Len(httpLog) = 1
    /\ Len(httpLog[1].request.body.obj.buttonList.obj.buttons.arr) = 3
    /\ httpLog[1].request.body.obj.buttonList.obj.buttons.arr[3]
           = Obj([id |-> Str("b1"), label |-> Str("Beta 1")])

---------------------------------------------------------------------------
\* The keys the success record sets next to the spread of item.json.
RecordFields == {"messageResponse", "sentTo", "messageType", "apiProvider"}

\* What the transport answered item i with.
ResponseOf(i) ==
    httpDone[CHOOSE k \in 1..Len(httpDone) : httpDone[k].itemIndex = i].response

\* The four fields of item i's success record hold the transport's response,
\* the item's phoneNumber, its intent and the configured provider.
HasRecordFields(json, i) ==
    /\ json.messageResponse = ResponseOf(i)
    /\ json.sentTo = Str(items[i + 1].param.phoneNumber)
    /\ json.messageType = Str(items[i + 1].param.messageType)
    /\ json.apiProvider = items[i + 1].json.whatsappConfig.obj.apiProvider

\* Every item the loop has passed has its record, the k-th record being
\* that of input item k.
RecordsInOrder ==
    /\ pc # "thrown" => Len(returnData) = itemIndex
    /\ \A k \in 1..Len(returnData) : returnData[k].pairedItem = k - 1

\* C11 (as claimed): the record of a successfully sent item contains every
\* field of the input item unchanged, plus messageResponse, sentTo,
\* messageType and apiProvider; the record of an item that failed under
\* continue-on-fail is exactly {error: message}.
C11_AllFieldsUnchanged ==
    /\ RecordsInOrder
    /\ \A k \in 1..Len(returnData) :
          LET json == returnData[k].json
              item == items[k] IN
          IF Answered(k - 1)
          THEN /\ \A f \in DOMAIN item.json : json[f] = item.json[f]
               /\ HasRecordFields(json, k - 1)
          ELSE /\ continueOnFail
               /\ json = [error |-> Message(FailureOf(k - 1).message)]

\* C11: the record of a successfully sent item has exactly the input item's
\* keys and messageResponse, sentTo, messageType, apiProvider; these four
\* hold the transport's response unmodified, the item's phoneNumber, its
\* intent and the configured provider, replacing an input field of the same
\* name; every other field of the input item is unchanged.  The record of an
\* item that failed under continue-on-fail is exactly {error: message} with
\* the failure's message, and no record is an error record otherwise.
C11_SuccessRecordFrame ==
    /\ RecordsInOrder
    /\ \A k \in 1..Len(returnData) :
          LET json == returnData[k].json
              item == items[k] IN
          IF Answered(k - 1)
          THEN /\ DOMAIN json = DOMAIN item.json \cup RecordFields
               /\ \A f \in DOMAIN item.json \ RecordFields : json[f] = item.json[f]
               /\ HasRecordFields(json, k - 1)
          ELSE /\ continueOnFail
               /\ Failed(k - 1)
               /\ json = [error |-> Message(FailureOf(k - 1).message)]
               /\ DOMAIN json = {"error"}

\* C11 witness: continue-on-fail enabled, a returned batch of two: the first
\* item, whose json came in with name, sentTo and whatsappConfig, was
\* answered and its record keeps name and whatsappConfig while sentTo now is
\* the phone number; the second item failed and its record is {error} only.
C11_Witness ==
    /\ continueOnFail
    /\ pc = "returned"
    /\ Len(items) = 2
    /\ Answered(0)
    /\ "sentTo" \in DOMAIN items[1].json
    /\ output[1][1].json.sentTo # items[1].json.sentTo
    /\ output[1][1].json.name = items[1].json.name
    /\ output[1][1].json.whatsappConfig = items[1].json.whatsappConfig
    /\ Failed(1)
    /\ "name" \in DOMAIN items[2].json
    /\ DOMAIN output[1][2].json = {"error"}

---------------------------------------------------------------------------
\* C12 (as claimed): with continue-on-fail disabled, the error the execution
\* aborts with carries the index of the failing item, whichever failure it
\* was: missing configuration, unknown provider, malformed listSections, or
\* the transport rejecting the request.
C12_AbortCarriesItemIndex ==
    (~continueOnFail /\ pc = "thrown") =>
        /\ Failed(itemIndex)
        /\ thrown.itemIndex = <<itemIndex>>

====
